---- MODULE Spec2Model ----
(***************************************************************************)
(* A model of competition.py: the second-largest-integer extractor (class  *)
(* SNDL), its descending merge sort, and the exam grader (class Exam).     *)
(*                                                                         *)
(* Python values are modelled as tagged records so that `type(x) == int`   *)
(* is a test the model performs.  A call's outcome is a record: a returned *)
(* value, the value None, or the exception that left the call.             *)
(***************************************************************************)
EXTENDS Integers, Sequences, FiniteSets, TLC

VARIABLES
    pc,          \* position of the driver: which call has been made
    data,        \* argument `data` of second_largest / `target` of the filter
    ext_method,  \* argument `ext_method` of second_largest
    outcome,     \* outcome of the call made (value, None or exception)
    filtered,    \* list returned by filter_int_ambiguous_list
    heap,        \* list objects by identity: object id -> contents
    arg,         \* object id of the list passed to the sort
    res,         \* object id of the list the sort returned (0: none yet)
    orig,        \* contents of the argument when the sort was called
    ctor_marks,  \* `marks` argument of Exam(...)
    exam,        \* "none", "constructed" or "RuntimeError"
    self_marks,  \* Exam.marks of the constructed instance
    arg_marks,   \* `marks` argument of grade_paper
    inclusive,   \* `inclusive` argument of grade_paper
    grade        \* outcome of grade_paper

vars == <<pc, data, ext_method, outcome, filtered, heap, arg, res, orig,
          ctor_marks, exam, self_marks, arg_marks, inclusive, grade>>

sndlVars == <<data, ext_method, outcome, filtered>>
sortVars == <<heap, arg, res, orig>>
examVars == <<ctor_marks, exam, self_marks, arg_marks, inclusive, grade>>

(***************************************************************************)
(* Bounds of the model.                                                    *)
(***************************************************************************)
MaxLen == 4        \* longest mixed-type input list
MaxInt == 1        \* integers in input lists range over -1..MaxInt
MaxSortLen == 5    \* longest integer list handed to the sort directly
MaxExtra == 1      \* entries appended after the named ones in a marks list

IntVals == (0 - 1)..MaxInt

(***************************************************************************)
(* Python values.                                                          *)
(***************************************************************************)
PyInt(n) == [tag |-> "int", val |-> n]
PyTrue == [tag |-> "bool", val |-> 1]
PyFloat == [tag |-> "float", val |-> 1]
PyStr == [tag |-> "str", val |-> 0]
PyNone == [tag |-> "NoneType", val |-> 0]

NonInts == {PyTrue, PyFloat, PyStr, PyNone}
Elems == {PyInt(n) : n \in IntVals} \cup NonInts

SeqsUpTo(S, n) == UNION {[1..k -> S] : k \in 0..n}

\* `data` as passed by a caller: a list, or something that is not a list.
PyList(xs) == [type |-> "list", items |-> xs, val |-> 0]
PyTuple(xs) == [type |-> "tuple", items |-> xs, val |-> 0]
PyScalar(t, v) == [type |-> t, items |-> <<>>, val |-> v]

Lists == {PyList(xs) : xs \in SeqsUpTo(Elems, MaxLen)}
NonLists ==
    {PyTuple(xs) : xs \in SeqsUpTo({PyInt(n) : n \in IntVals}, MaxLen)}
    \cup {PyScalar("int", 0), PyScalar("int", 5), PyScalar("NoneType", 0),
          PyScalar("str", 0), PyScalar("str", 2)}
DataValues == Lists \cup NonLists

\* Outcomes of a call.
Returned(v) == [kind |-> "value", val |-> v]
None == [kind |-> "None", val |-> 0]
Raised(e) == [kind |-> e, val |-> 0]
NoCall == [kind |-> "nocall", val |-> 0]

\* Python truthiness: `not target` is ~Truthy(target).
Truthy(d) ==
    CASE d.type \in {"list", "tuple"} -> d.items # <<>>
      [] d.type = "int" -> d.val # 0
      [] d.type = "str" -> d.val # 0
      [] OTHER -> FALSE

\* str.lower() on the strings the model passes (method and question names).
Lower(s) ==
    CASE s = "MANUAL" -> "manual"
      [] s = "Built-In" -> "built-in"
      [] s = "Fifth" -> "fifth"
      [] OTHER -> s

Methods == {"manual", "built-in", "MANUAL", "Built-In", "other"}

(***************************************************************************)
(* SNDL                                                                    *)
(***************************************************************************)
\* The filter with isinstance(head, int) as its test: bool is a subclass of int.
RECURSIVE filter_isinstance(_)
filter_isinstance(target) ==
    IF target = <<>> THEN <<>>
    ELSE IF Head(target).tag \notin {"int", "bool"}
         THEN filter_isinstance(Tail(target))
         ELSE <<Head(target)>> \o filter_isinstance(Tail(target))

\* filter_int_ambiguous_list: drop the head unless type(head) is int, recurse.
RECURSIVE filter_int_ambiguous_list(_)
filter_int_ambiguous_list(target) ==
    IF target = <<>> THEN <<>>
    ELSE IF Head(target).tag # "int"
         THEN filter_int_ambiguous_list(Tail(target))
         ELSE <<Head(target)>> \o filter_int_ambiguous_list(Tail(target))

\* The integers held by a list of int-typed elements.
Vals(xs) == [i \in 1..Len(xs) |-> xs[i].val]

\* check_int_list without the `type(target) != list` test.
check_int_list_no_type_test(target) ==
    \/ ~Truthy(target)
    \/ ~\E i \in 1..Len(target.items) : target.items[i].tag = "int"

\* check_int_list: TRUE when it raises RuntimeError.
check_int_list(target) ==
    \/ ~Truthy(target)
    \/ target.type # "list"
    \/ ~\E i \in 1..Len(target.items) : target.items[i].tag = "int"

\* The while loop of merge_sort with the comparison reversed (ascending).
RECURSIVE merge_loop_ascending(_, _, _, _, _)
merge_loop_ascending(left, right, i, k, merged) ==
    IF i <= Len(left) /\ k <= Len(right)
    THEN IF left[i] < right[k]
         THEN merge_loop_ascending(left, right, i + 1, k, Append(merged, left[i]))
         ELSE merge_loop_ascending(left, right, i, k + 1, Append(merged, right[k]))
    ELSE merged \o SubSeq(left, i, Len(left)) \o SubSeq(right, k, Len(right))

\* The while loop of merge_sort with only the right tail appended after it.
RECURSIVE merge_loop_drops_left_tail(_, _, _, _, _)
merge_loop_drops_left_tail(left, right, i, k, merged) ==
    IF i <= Len(left) /\ k <= Len(right)
    THEN IF left[i] > right[k]
         THEN merge_loop_drops_left_tail(left, right, i + 1, k, Append(merged, left[i]))
         ELSE merge_loop_drops_left_tail(left, right, i, k + 1, Append(merged, right[k]))
    ELSE merged \o SubSeq(right, k, Len(right))

\* The while loop of merge_sort followed by the append of both tails.
\* i and k are the cursors, 1-based here.
RECURSIVE merge_loop(_, _, _, _, _)
merge_loop(left, right, i, k, merged) ==
    IF i <= Len(left) /\ k <= Len(right)
    THEN IF left[i] > right[k]
         THEN merge_loop(left, right, i + 1, k, Append(merged, left[i]))
         ELSE merge_loop(left, right, i, k + 1, Append(merged, right[k]))
    ELSE merged \o SubSeq(left, i, Len(left)) \o SubSeq(right, k, Len(right))

\* merge_sort: the contents of the list it returns.
RECURSIVE merge_sort(_)
merge_sort(target) ==
    IF target = <<>> THEN <<>>
    ELSE IF Len(target) = 1 THEN target
    ELSE LET mid_pt == Len(target) \div 2
             left == merge_sort(SubSeq(target, 1, mid_pt))
             right == merge_sort(SubSeq(target, mid_pt + 1, Len(target)))
         IN merge_loop(left, right, 1, 1, <<>>)

\* sort_int_list: the contents of the list it returns.
sort_int_list(target) ==
    IF target = <<>> THEN <<>> ELSE merge_sort(target)

\* sorted(data, reverse=True): Python's built-in stable sort, descending.
\* Each element is inserted behind the elements that are >= it.
RECURSIVE insert_desc(_, _)
insert_desc(x, s) ==
    IF s = <<>> THEN <<x>>
    ELSE IF Head(s) >= x THEN <<Head(s)>> \o insert_desc(x, Tail(s))
    ELSE <<x>> \o s

RECURSIVE sorted_reverse(_)
sorted_reverse(xs) ==
    IF xs = <<>> THEN <<>>
    ELSE insert_desc(xs[Len(xs)], sorted_reverse(SubSeq(xs, 1, Len(xs) - 1)))

\* xs[0] in place of xs[1]: the first element, or IndexError.
Index1_first(xs) ==
    IF Len(xs) >= 1 THEN Returned(xs[1]) ELSE Raised("IndexError")

\* xs[1] in Python: the second element, or IndexError.
Index1(xs) ==
    IF Len(xs) >= 2 THEN Returned(xs[2]) ELSE Raised("IndexError")

\* second_largest: the outcome of the call.
second_largest(d, method) ==
    IF check_int_list(d) THEN None
    ELSE LET ints == Vals(filter_int_ambiguous_list(d.items))
         IN IF Lower(method) = "manual" THEN Index1(sort_int_list(ints))
            ELSE IF Lower(method) = "built-in" THEN Index1(sorted_reverse(ints))
            ELSE None

(***************************************************************************)
(* List objects: what merge_sort / sort_int_list return, by identity.      *)
(***************************************************************************)
NewId(h) == Cardinality(DOMAIN h) + 1
Alloc(h, xs) == [o \in DOMAIN h \cup {NewId(h)} |-> IF o \in DOMAIN h THEN h[o] ELSE xs]

\* merge_sort on the list object a of heap h: the heap after the call and the
\* reference returned.  `return []` and `merged` are new objects; `return target`
\* is the argument itself.
merge_sort_obj(h, a) ==
    IF h[a] = <<>> THEN [heap |-> Alloc(h, <<>>), ref |-> NewId(h)]
    ELSE IF Len(h[a]) = 1 THEN [heap |-> h, ref |-> a]
    ELSE [heap |-> Alloc(h, merge_sort(h[a])), ref |-> NewId(h)]

sort_int_list_obj(h, a) ==
    IF h[a] = <<>> THEN [heap |-> Alloc(h, <<>>), ref |-> NewId(h)]
    ELSE merge_sort_obj(h, a)

(***************************************************************************)
(* Exam                                                                    *)
(***************************************************************************)
MaxMark == 100
MinMark == 0

\* Exam.indexed, the names of the five questions.
indexed == <<"first", "second", "third", "fourth", "fifth">>

\* Questions.get_marks_list: the five marks packed as (name, mark) tuples.
get_marks_list(q) == [i \in 1..5 |-> <<indexed[i], q[i]>>]

\* Exam.__validate_marks: the loop over the marks, then the dict returned.
RECURSIVE validate_loop(_, _, _, _, _)
validate_loop(marks, i, present, highest, lowest) ==
    IF i > Len(marks)
    THEN [questions |-> present, highest_mark |-> highest, lowest_mark |-> lowest]
    ELSE LET mark == marks[i]
             named == \E n \in 1..Len(indexed) : indexed[n] = Lower(mark[1])
         IN validate_loop(marks, i + 1,
                          IF named THEN present + 1 ELSE present,
                          IF mark[2] > MaxMark THEN mark[2] ELSE highest,
                          IF mark[2] < MinMark THEN mark[2] ELSE lowest)

validate_marks(marks) == validate_loop(marks, 1, 0, 0, 0)

\* Exam.__init__: TRUE when the constructor raises RuntimeError.
exam_init_raises(marks) ==
    /\ marks # <<>>
    /\ LET validated == validate_marks(marks)
       IN \/ validated.questions # 5
          \/ validated.highest_mark > MaxMark
          \/ validated.lowest_mark < MinMark

\* GRADE_RANGE, in definition (iteration) order.
GRADE_RANGE == <<
    [name |-> "GRADE_A", value |-> <<90, 100>>],
    [name |-> "GRADE_B", value |-> <<80, 89>>],
    [name |-> "GRADE_C", value |-> <<70, 79>>],
    [name |-> "GRADE_D", value |-> <<60, 69>>],
    [name |-> "GRADE_F", value |-> <<0, 60>> ] >>

\* GRADE_RANGE[name].value
range_value(name) ==
    GRADE_RANGE[CHOOSE i \in 1..Len(GRADE_RANGE) : GRADE_RANGE[i].name = name].value

\* __grade_condition with the inclusive flag ignored.
grade_condition_exclusive(mark, mark_range, incl) ==
    IF mark_range = <<0 - 1, 0 - 1>> THEN FALSE
    ELSE mark > mark_range[1] /\ mark < mark_range[2]

\* Exam.__grade_condition
grade_condition(mark, mark_range, incl) ==
    IF mark_range = <<0 - 1, 0 - 1>> THEN FALSE
    ELSE IF incl
         THEN mark >= mark_range[1] /\ mark <= mark_range[2]
         ELSE mark > mark_range[1] /\ mark < mark_range[2]

\* sum([x[1] for x in marks])
RECURSIVE sum_marks(_)
sum_marks(marks) ==
    IF marks = <<>> THEN 0 ELSE marks[1][2] + sum_marks(Tail(marks))

\* math.ceil(s / n) for n > 0
ceil_div(s, n) == 0 - ((0 - s) \div n)

\* "9" in str(total)
RECURSIVE has_digit_9(_)
has_digit_9(n) ==
    IF n < 0 THEN has_digit_9(0 - n)
    ELSE n % 10 = 9 \/ (n >= 10 /\ has_digit_9(n \div 10))

\* The `for RANGE in GRADE_RANGE` loop of grade_paper, from index i on.
RECURSIVE grade_loop(_, _, _, _)
grade_loop(total, incl, i, g) ==
    IF i > Len(GRADE_RANGE) THEN g
    ELSE LET RANGE == GRADE_RANGE[i]
         IN IF incl
            THEN IF /\ grade_condition(total, RANGE.value, incl)
                    /\ (g = "" \/ range_value(g)[1] < RANGE.value[1])
                 THEN grade_loop(total, incl, i + 1, RANGE.name)
                 ELSE grade_loop(total, incl, i + 1, g)
            ELSE IF grade_condition(total, RANGE.value, FALSE)
                 THEN grade_loop(total, incl, i + 1, RANGE.name)
                 ELSE grade_loop(total, incl, i + 1, g)

\* grade.replace("GRADE_", "")
strip_prefix(g) ==
    CASE g = "GRADE_A" -> "A"
      [] g = "GRADE_B" -> "B"
      [] g = "GRADE_C" -> "C"
      [] g = "GRADE_D" -> "D"
      [] g = "GRADE_F" -> "F"
      [] OTHER -> g

\* The part of grade_paper that grades the marks chosen.
grade_of(marks, incl) ==
    LET total == ceil_div(sum_marks(marks), Len(marks))
        forced == total % 10 = 0 \/ total = 0 \/ has_digit_9(total)
    IN strip_prefix(grade_loop(total, incl \/ forced, 1, ""))

\* Exam.grade_paper: "None" stands for the value None.
grade_paper(own, marks, incl) ==
    IF own # <<>>
    THEN grade_of(IF marks = <<>> THEN own ELSE marks, incl)
    ELSE "None"

(***************************************************************************)
(* Inputs.                                                                 *)
(***************************************************************************)
CoarseMarks == {MinMark, 50, MaxMark}
EdgeMarks == {0 - 2, 50, 105}

\* Papers packed by Questions(...).get_marks_list().
ValidPapers ==
    {get_marks_list(<<m, q[1], q[2], q[3], q[4]>>) :
        m \in MinMark..MaxMark, q \in [1..4 -> CoarseMarks]}

\* Lists a caller may hand to Exam(...): a prefix of the five named questions
\* with marks in or out of range, followed by up to MaxExtra further entries.
Prefixes ==
    UNION {{[i \in 1..n |-> <<indexed[i], q[i]>>] : q \in [1..n -> EdgeMarks]} :
              n \in 0..5}
ExtraEntries == {"sixth", "first", "Fifth"} \X EdgeMarks
OddPapers == {p \o e : p \in Prefixes, e \in SeqsUpTo(ExtraEntries, MaxExtra)}

Papers == ValidPapers \cup OddPapers

ArgPapers ==
    {<<>>,
     get_marks_list(<<100, 100, 100, 100, 100>>),
     get_marks_list(<<67, 78, 30, 90, 89>>),
     <<<<"first", 61>>, <<"second", 63>>>>}

(***************************************************************************)
(* The second-largest extractor: one call on one input.                    *)
(***************************************************************************)
InitSNDL ==
    /\ pc = "ready"
    /\ data \in DataValues
    /\ ext_method \in Methods
    /\ outcome = NoCall
    /\ filtered = <<>>
    /\ heap = <<>> /\ arg = 0 /\ res = 0 /\ orig = <<>>
    /\ ctor_marks = <<>> /\ exam = "none" /\ self_marks = <<>>
    /\ arg_marks = <<>> /\ inclusive = FALSE /\ grade = "nocall"

SecondLargest ==
    /\ pc = "ready"
    /\ outcome' = second_largest(data, ext_method)
    /\ pc' = "returned"
    /\ UNCHANGED <<data, ext_method, filtered, sortVars, examVars>>

FilterIntAmbiguousList ==
    /\ pc = "ready"
    /\ data.type = "list"
    /\ filtered' = filter_int_ambiguous_list(data.items)
    /\ pc' = "filtered"
    /\ UNCHANGED <<data, ext_method, outcome, sortVars, examVars>>

NextSNDL == SecondLargest \/ FilterIntAmbiguousList

SpecSNDL == InitSNDL /\ [][NextSNDL]_vars

(***************************************************************************)
(* The sort on list objects: a call, then the caller mutating the result.  *)
(***************************************************************************)
InitSort ==
    /\ pc = "ready"
    /\ orig \in SeqsUpTo(IntVals, MaxSortLen)
    /\ heap = <<orig>>
    /\ arg = 1
    /\ res = 0
    /\ data = PyList(<<>>) /\ ext_method = "manual" /\ outcome = NoCall
    /\ filtered = <<>>
    /\ ctor_marks = <<>> /\ exam = "none" /\ self_marks = <<>>
    /\ arg_marks = <<>> /\ inclusive = FALSE /\ grade = "nocall"

MergeSort ==
    /\ pc = "ready"
    /\ LET r == merge_sort_obj(heap, arg)
       IN heap' = r.heap /\ res' = r.ref
    /\ pc' = "sorted"
    /\ UNCHANGED <<arg, orig, sndlVars, examVars>>

SortIntList ==
    /\ pc = "ready"
    /\ LET r == sort_int_list_obj(heap, arg)
       IN heap' = r.heap /\ res' = r.ref
    /\ pc' = "sorted"
    /\ UNCHANGED <<arg, orig, sndlVars, examVars>>

\* The caller appends to the list it got back.
MutateResult ==
    /\ pc = "sorted"
    /\ \E v \in IntVals : heap' = [heap EXCEPT ![res] = Append(@, v)]
    /\ pc' = "mutated"
    /\ UNCHANGED <<arg, res, orig, sndlVars, examVars>>

NextSort == MergeSort \/ SortIntList \/ MutateResult

SpecSort == InitSort /\ [][NextSort]_vars

(***************************************************************************)
(* The exam grader: construction, then one grade_paper call.               *)
(***************************************************************************)
InitExam ==
    /\ pc = "ready"
    /\ ctor_marks \in Papers
    /\ exam = "none"
    /\ self_marks = <<>>
    /\ arg_marks = <<>>
    /\ inclusive = FALSE
    /\ grade = "nocall"
    /\ data = PyList(<<>>) /\ ext_method = "manual" /\ outcome = NoCall
    /\ filtered = <<>>
    /\ heap = <<>> /\ arg = 0 /\ res = 0 /\ orig = <<>>

ExamInit ==
    /\ pc = "ready"
    /\ IF exam_init_raises(ctor_marks)
       THEN exam' = "RuntimeError" /\ self_marks' = <<>> /\ pc' = "raised"
       ELSE exam' = "constructed" /\ self_marks' = ctor_marks /\ pc' = "constructed"
    /\ UNCHANGED <<ctor_marks, arg_marks, inclusive, grade, sndlVars, sortVars>>

GradePaper ==
    /\ pc = "constructed"
    /\ \E m \in ArgPapers, incl \in BOOLEAN :
          /\ arg_marks' = m
          /\ inclusive' = incl
          /\ grade' = grade_paper(self_marks, m, incl)
    /\ pc' = "graded"
    /\ UNCHANGED <<ctor_marks, exam, self_marks, sndlVars, sortVars>>

NextExam == ExamInit \/ GradePaper

SpecExam == InitExam /\ [][NextExam]_vars

(***************************************************************************)
(* Properties.                                                             *)
(***************************************************************************)
IsExactInt(x) == x.tag = "int"
IntPositions(xs) == {i \in 1..Len(xs) : IsExactInt(xs[i])}
IntValues(xs) == {xs[i].val : i \in IntPositions(xs)}
Occurrences(xs, v) == Cardinality({i \in IntPositions(xs) : xs[i].val = v})
Maximum(S) == CHOOSE m \in S : \A n \in S : n <= m
DocumentedMethod == Lower(ext_method) \in {"manual", "built-in"}

\* The value at position 2 of the descending ordering of the exact-int
\* elements: the maximum if it occurs twice, else the largest value below it.
Rank2(xs) ==
    LET mx == Maximum(IntValues(xs))
    IN IF Occurrences(xs, mx) >= 2 THEN mx ELSE Maximum(IntValues(xs) \ {mx})

CountIn(s, v) == Cardinality({i \in 1..Len(s) : s[i] = v})
IsDescending(s) == \A i \in 1..(Len(s) - 1) : s[i] >= s[i + 1]

\* C1: second_largest returns None, and does not raise, for every list with
\* fewer than two exact-int elements, under both documented methods.
C1_FewIntsGiveNone ==
    (/\ pc = "returned"
     /\ data.type = "list"
     /\ DocumentedMethod
     /\ Cardinality(IntPositions(data.items)) < 2)
    => outcome = None

\* C2: for every list with at least two exact-int elements, second_largest
\* returns the value at index 1 of the descending ordering of those elements,
\* duplicates counted as separate positions.
C2_Rank2 ==
    (/\ pc = "returned"
     /\ data.type = "list"
     /\ DocumentedMethod
     /\ Cardinality(IntPositions(data.items)) >= 2)
    => outcome = Returned(Rank2(data.items))

C2_Witness ==
    /\ pc = "returned"
    /\ data.type = "list"
    /\ DocumentedMethod
    /\ Cardinality(IntPositions(data.items)) >= 3
    /\ \E i \in 1..Len(data.items) : ~IsExactInt(data.items[i])
    /\ outcome.kind = "value"
    /\ outcome.val < Maximum(IntValues(data.items))

\* C3: on every input list the manual strategy and the built-in strategy
\* produce the same outcome.
C3_StrategiesAgree ==
    (pc = "returned" /\ data.type = "list")
    => /\ Lower(ext_method) = "manual"
            => outcome = second_largest(data, "built-in")
       /\ Lower(ext_method) = "built-in"
            => outcome = second_largest(data, "manual")

C3_Witness ==
    /\ pc = "returned"
    /\ ext_method = "manual"
    /\ Cardinality(IntPositions(data.items)) >= 3
    /\ ~IsDescending(Vals(filter_int_ambiguous_list(data.items)))
    /\ outcome.kind = "value"
    /\ outcome = second_largest(data, "built-in")

\* C4: the list merge_sort / sort_int_list returns is a permutation of the
\* argument (same length, same multiset) and every adjacent pair is a >= b.
C4_SortedPermutation ==
    pc = "sorted"
    => /\ Len(heap[res]) = Len(orig)
       /\ \A v \in IntVals : CountIn(heap[res], v) = CountIn(orig, v)
       /\ IsDescending(heap[res])

C4_Witness ==
    /\ pc = "sorted"
    /\ Len(orig) >= 4
    /\ ~IsDescending(orig)
    /\ \E v \in IntVals : CountIn(orig, v) >= 2
    /\ heap[res] # orig

\* C5: filter_int_ambiguous_list returns exactly the elements whose type is
\* exactly int, in their original order and with their multiplicity.
C5_FilterExactInts ==
    pc = "filtered" => filtered = SelectSeq(data.items, IsExactInt)

C5_Witness ==
    /\ pc = "filtered"
    /\ \E i \in 1..Len(data.items) : data.items[i] = PyTrue
    /\ \E i \in 1..Len(data.items) : data.items[i] = PyFloat
    /\ Len(filtered) >= 2
    /\ Len(filtered) < Len(data.items)
    /\ filtered[1] = filtered[2]

\* C6: the list the sort returns is never the argument object, so mutating
\* the result leaves the argument's contents as they were.
C6_FreshResult ==
    pc \in {"sorted", "mutated"} => (res # arg /\ heap[arg] = orig)

\* C7: second_largest returns None, without raising, for every data value
\* that is not a list.
C7_NonListGivesNone ==
    (pc = "returned" /\ data.type # "list") => outcome = None

C7_Witness ==
    /\ pc = "returned"
    /\ data.type = "tuple"
    /\ Len(data.items) >= 2
    /\ DocumentedMethod
    /\ outcome = None

\* The least integer t with 5 * t >= the sum of the marks.
CeilMean5(marks) ==
    CHOOSE t \in MinMark..MaxMark :
        5 * t >= sum_marks(marks) /\ 5 * (t - 1) < sum_marks(marks)

Band(t) ==
    CASE 90 <= t /\ t <= 100 -> "A"
      [] 80 <= t /\ t <= 89 -> "B"
      [] 70 <= t /\ t <= 79 -> "C"
      [] 60 <= t /\ t <= 69 -> "D"
      [] 0 <= t /\ t <= 59 -> "F"

FiveValidMarks(marks) ==
    /\ Len(marks) = 5
    /\ \A i \in 1..5 : marks[i][2] \in MinMark..MaxMark

\* C8: for an Exam holding five marks in 0..100, grade_paper() returns one
\* letter of A, B, C, D, F, the band of t = ceil(sum / 5), for either value
\* of the inclusive flag.
C8_GradeIsBand ==
    (pc = "graded" /\ arg_marks = <<>> /\ FiveValidMarks(self_marks))
    => /\ grade \in {"A", "B", "C", "D", "F"}
       /\ grade = Band(CeilMean5(self_marks))

C8_Witness ==
    /\ pc = "graded"
    /\ arg_marks = <<>>
    /\ FiveValidMarks(self_marks)
    /\ ~inclusive
    /\ sum_marks(self_marks) % 5 # 0
    /\ CeilMean5(self_marks) = 60
    /\ grade = "D"

\* C9: Exam(marks) with non-empty marks raises RuntimeError whenever the list
\* does not hold exactly five marks, or a mark is above 100 or below 0, and
\* succeeds for five entries named first..fifth with every mark in 0..100.
C9_ConstructorValidates ==
    (pc \in {"raised", "constructed"} /\ ctor_marks # <<>>)
    => /\ (\/ Len(ctor_marks) # 5
           \/ \E i \in 1..Len(ctor_marks) : ctor_marks[i][2] > MaxMark
           \/ \E i \in 1..Len(ctor_marks) : ctor_marks[i][2] < MinMark)
          => exam = "RuntimeError"
       /\ (/\ FiveValidMarks(ctor_marks)
           /\ \A i \in 1..5 : ctor_marks[i][1] = indexed[i])
          => exam = "constructed"

\* C10: grade_paper grades its argument whenever the argument is non-empty,
\* the instance's marks only when the argument is empty, and returns None
\* only when both are empty.
C10_ArgumentHasPriority ==
    pc = "graded"
    => /\ arg_marks # <<>> => grade = grade_of(arg_marks, inclusive)
       /\ (arg_marks = <<>> /\ self_marks # <<>>)
            => grade = grade_of(self_marks, inclusive)
       /\ grade = "None" => (arg_marks = <<>> /\ self_marks = <<>>)

====
